---- MODULE Spec2Model ----
(***************************************************************************)
(* The wrapper of src/src/server.js: one Node.js process that supervises   *)
(* a single backend gateway process, proxies HTTP and WebSocket traffic to *)
(* it and restores the state directory from an uploaded archive.           *)
(*                                                                         *)
(* The wrapper runs on one event loop: a handler runs without interruption *)
(* from one await to the next, so every action below is one such run.      *)
(* The backend processes are operating-system processes: they bind the     *)
(* loopback port and exit on their own schedule.                           *)
(***************************************************************************)
EXTENDS FiniteSets, Integers, Sequences, TLC

\* Bounds of the model.
MaxProcs == 2      \* backend processes the wrapper may spawn in one run
MaxReqs == 2       \* requests handled in one run

Procs == 1..MaxProcs
Reqs == 1..MaxReqs

VARIABLES
    stateDir,         \* STATE_DIR on disk
    workspaceDir,     \* WORKSPACE_DIR on disk (configured outside STATE_DIR)
    gatewayProc,      \* let gatewayProc: 0 is null, else the child process
    gatewayStarting,  \* let gatewayStarting: 0 is null, else the attempt (named by the process it spawned)
    proc,             \* every child process the wrapper ever spawned
    port,             \* the process listening on GATEWAY_TARGET, 0 when none
    attempt,          \* outcome of the startup attempt of each process
    req,              \* the requests and where their handlers stand
    \* The import handler, the directories and the gateway token in detail.
    dirs,             \* STATE_DIR and WORKSPACE_DIR, as path segments
    envTok,           \* the operator's *_GATEWAY_TOKEN override, 0 when unset
    GATEWAY_TOKEN,    \* const GATEWAY_TOKEN of the running wrapper
    runs,             \* how many times the wrapper has been started
    firstPersisted,   \* the token first written to gateway.token, 0 before
    disk,             \* state directory, workspace, backups, staging directory
    imp,              \* the POST /setup/import handler
    gw,               \* the token the backend held by gatewayProc was started with, 0 when no handle
    exported,         \* the archive the last GET /setup/export produced
    \* The smaller models.
    cmd,              \* one runCmd call: the child, the promise, the text collected
    probe,            \* one waitForGatewayReady call and the clock
    SETUP_PASSWORD,   \* const SETUP_PASSWORD, <<>> when unset
    http,             \* one request on its way through the middleware stack
    wrapper,          \* the wrapper process and what it has logged
    boot,             \* one setting resolved from the environment at module scope
    fwd,              \* the requests handed to the proxy and the backend they go to
    conf              \* the config files on disk and the last answer of reset / setup run

\* The variables of the supervisor and proxy model.
gatewayVars == <<stateDir, workspaceDir, gatewayProc, gatewayStarting, proc, port, attempt, req>>
\* The variables of the archive and token model.
importVars == <<dirs, envTok, GATEWAY_TOKEN, runs, firstPersisted, disk, imp, gw, exported>>

\* The variables of the request authentication model.
authVars == <<SETUP_PASSWORD, http>>

vars == <<gatewayVars, importVars, cmd, probe, authVars, wrapper, boot, fwd, conf>>
\* What each model leaves alone.
nonGatewayVars == <<importVars, cmd, probe, authVars, wrapper, boot, fwd, conf>>
nonImportVars == <<gatewayVars, cmd, probe, authVars, wrapper, boot, fwd, conf>>
nonCmdVars == <<gatewayVars, importVars, probe, authVars, wrapper, boot, fwd, conf>>
nonProbeVars == <<gatewayVars, importVars, cmd, authVars, wrapper, boot, fwd, conf>>
nonAuthVars == <<gatewayVars, importVars, cmd, probe, wrapper, boot, fwd, conf>>
nonWrapperVars == <<gatewayVars, importVars, cmd, probe, authVars, boot, fwd, conf>>
nonBootVars == <<gatewayVars, importVars, cmd, probe, authVars, wrapper, fwd, conf>>
nonFwdVars == <<gatewayVars, importVars, cmd, probe, authVars, wrapper, boot, conf>>
nonConfVars == <<gatewayVars, importVars, cmd, probe, authVars, wrapper, boot, fwd>>

-----------------------------------------------------------------------------
\* Directories.  A directory is absent, or holds content of some origin;
\* config says whether the backend's config file is in it.

AbsentDir == [exists |-> FALSE, origin |-> "none", config |-> FALSE]
Dir(o, c) == [exists |-> TRUE, origin |-> o, config |-> c]

\* fs.mkdirSync(dir, { recursive: true })
mkdirSync(d) == IF d.exists THEN d ELSE Dir("local", FALSE)

\* isConfigured(): the config file exists (configPath() lies in STATE_DIR).
isConfiguredDir(d) == d.exists /\ d.config
isConfigured == isConfiguredDir(stateDir)

\* Uploaded archives: the names at the top level of the extracted tree.
\* marker: one of .openclaw / .clawdbot / .moltbot; config: that directory
\* holds a config file; ws: a top-level "workspace" directory.
Archives ==
    { [marker |-> FALSE, config |-> FALSE, ws |-> TRUE],
      [marker |-> TRUE, config |-> TRUE, ws |-> TRUE],
      [marker |-> TRUE, config |-> FALSE, ws |-> FALSE] }
NoArchive == [marker |-> FALSE, config |-> FALSE, ws |-> FALSE]

\* A faulty variant of the test below: every archive is accepted.
hasStateMarkerAlways(a) == TRUE
\* The import handler's test of the extracted top level.
hasStateMarker(a) == a.marker

-----------------------------------------------------------------------------
\* Child processes.

Alive(p) == proc[p] \in {"alive", "term"}
AliveProcs == {p \in Procs : Alive(p)}
Spawned == {p \in Procs : proc[p] # "none"}
nextPid == Cardinality(Spawned) + 1

\* child.kill("SIGTERM"): the signal is delivered to a live process.
kill(pr, p) == IF p # 0 /\ pr[p] = "alive" THEN [pr EXCEPT ![p] = "term"] ELSE pr

\* The value the "exit" and "error" handlers store in gatewayProc.
HandleAfterExit(p) == 0

\* A faulty variant of the assignment below: the handle is left as it is.
HandleKeptAfterSleep == gatewayProc
\* The value restartGateway and the import handler store after their sleep.
HandleAfterSleep == 0

-----------------------------------------------------------------------------
\* Requests.

Terminal == {"forwarded", "redirect", "503", "proxied", "destroyed", "200", "400", "500"}

IdleReq == [kind |-> "none", pc |-> "idle", arch |-> NoArchive,
            ens |-> "none", att |-> 0, old |-> 0, restarted |-> FALSE]

\* Some handler is inside the synchronous block of the import that moves
\* the directories: no other handler of the wrapper runs meanwhile.
Busy == \E r \in Reqs : req[r].pc = "relocated"

\* Requests take the slots in order.
CanStart(r) == /\ ~Busy
               /\ req[r].pc = "idle"
               /\ \A q \in Reqs : q < r => req[q].pc # "idle"

\* What each handler does with the outcome of its ensureGatewayRunning /
\* restartGateway call: "threw" is a rejection, anything else a return value.
FallthroughResult(res) == IF res = "threw" THEN "503" ELSE "forwarded"
\* (UpgradeResultNoCatch is a faulty variant: the rejection is not caught.)
UpgradeResultNoCatch(res) == "proxied"
UpgradeResult(res) == IF res = "threw" THEN "destroyed" ELSE "proxied"
SetupResult(res) == IF res = "threw" THEN "500" ELSE "200"

Finish(kind, res) ==
    CASE kind \in {"http", "httpSetup"} -> FallthroughResult(res)
      [] kind = "ws" -> UpgradeResult(res)
      [] OTHER -> SetupResult(res)

\* A handler that has answered keeps its kind, its upload, its answer and
\* the outcome of its ensureGatewayRunning call; att stays while the attempt
\* the call observed is in flight.
Done(rec, pc, res) ==
    [IdleReq EXCEPT !.kind = rec.kind, !.arch = rec.arch, !.pc = pc, !.ens = res,
                    !.att = IF res = "ok" /\ rec.att = gatewayStarting THEN rec.att ELSE 0]

Settled(rec, res) == Done(rec, Finish(rec.kind, res), res)

-----------------------------------------------------------------------------
\* ensureGatewayRunning

\* Two faulty variants of EnsureBranch: one without the isConfigured test,
\* one that ignores an attempt in flight.
EnsureBranchNoConfigCheck(cfg, gp, gs) ==
    IF gp # 0 THEN "ok" ELSE IF gs = 0 THEN "spawn" ELSE "join"
EnsureBranchNoSingleFlight(cfg, gp, gs) ==
    IF ~cfg THEN "notConfigured" ELSE IF gp # 0 THEN "ok" ELSE "spawn"
\* A third: an attempt in flight is awaited although there is a handle.
EnsureBranchJoinsFirst(cfg, gp, gs) ==
    IF ~cfg THEN "notConfigured"
    ELSE IF gs # 0 THEN "join"
    ELSE IF gp # 0 THEN "ok"
    ELSE "spawn"
\* The branch ensureGatewayRunning takes.
EnsureBranch(cfg, gp, gs) ==
    IF ~cfg THEN "notConfigured"
    ELSE IF gp # 0 THEN "ok"
    ELSE IF gs = 0 THEN "spawn"
    ELSE "join"

\* ensureGatewayRunning() called by the handler of request r, whose record
\* is rec, when gatewayProc holds gp and the child processes are pr.  The
\* call runs to its first await; startGateway() runs inside it.
ensureGatewayRunning(r, rec, gp, pr) ==
    LET b == EnsureBranch(isConfigured, gp, gatewayStarting)
        called == [rec EXCEPT !.att = gatewayStarting]
    IN  CASE b \in {"notConfigured", "ok"} ->
               /\ req' = [req EXCEPT ![r] = Settled(called, b)]
               /\ gatewayProc' = gp
               /\ proc' = pr
               /\ UNCHANGED <<gatewayStarting, attempt, workspaceDir>>
          [] b = "join" ->
               /\ req' = [req EXCEPT ![r] = [called EXCEPT !.pc = "awaiting"]]
               /\ gatewayProc' = gp
               /\ proc' = pr
               /\ UNCHANGED <<gatewayStarting, attempt, workspaceDir>>
          [] b = "spawn" ->
               /\ nextPid \in Procs
               /\ req' = [req EXCEPT ![r] = [called EXCEPT !.pc = "awaiting", !.att = nextPid]]
               /\ workspaceDir' = mkdirSync(workspaceDir)
               /\ gatewayStarting' = nextPid
               /\ attempt' = [attempt EXCEPT ![nextPid] = "pending"]
               /\ \/ /\ proc' = [pr EXCEPT ![nextPid] = "alive"]
                     /\ gatewayProc' = nextPid
                  \/ \* spawn fails: the "error" event arrives on the next tick
                     /\ proc' = [pr EXCEPT ![nextPid] = "failed"]
                     /\ gatewayProc' = HandleAfterExit(nextPid)

\* A faulty variant of restartGateway: it signals and sleeps without looking
\* at the handle.
restartGatewayAlwaysStops(r, rec) ==
    /\ proc' = kill(proc, gatewayProc)
    /\ req' = [req EXCEPT ![r] = [rec EXCEPT !.pc = "restartSleep", !.old = gatewayProc]]
    /\ UNCHANGED <<gatewayProc, gatewayStarting, attempt, workspaceDir>>
\* restartGateway() up to its first await.
restartGateway(r, rec) ==
    IF gatewayProc # 0
    THEN /\ proc' = kill(proc, gatewayProc)
         /\ req' = [req EXCEPT ![r] = [rec EXCEPT !.pc = "restartSleep", !.old = gatewayProc]]
         /\ UNCHANGED <<gatewayProc, gatewayStarting, attempt, workspaceDir>>
    ELSE ensureGatewayRunning(r, [rec EXCEPT !.restarted = TRUE], gatewayProc, proc)

-----------------------------------------------------------------------------
\* The smaller models at rest.

\* A promise: pending, resolved with a value, or rejected.
NoResult == [code |-> "none", output |-> <<>>]
NoPromise == [state |-> "none", value |-> NoResult]
IdleCmd == [child |-> "none", promise |-> NoPromise, out |-> <<>>, exit |-> "none", n |-> 0]
RunCmdAtRest == cmd = IdleCmd

IdleProbe == [pc |-> "idle", now |-> 0, started |-> 0, responded |-> FALSE,
              respondedAt |-> 0, probes |-> 0, result |-> "none"]
ProbeAtRest == probe = IdleProbe

NoHeader == [scheme |-> "", decoded |-> <<>>]
IdleHttp == [pc |-> "idle", method |-> "GET", path |-> <<>>, header |-> NoHeader,
             proto |-> "", configured |-> FALSE, gatewayUp |-> FALSE,
             upgrade |-> FALSE, answer |-> "none"]
AuthAtRest ==
    /\ SETUP_PASSWORD = <<>>
    /\ http = IdleHttp

WrapperUp == [status |-> "up", log |-> <<>>]
WrapperAtRest == wrapper = WrapperUp
\* The wrapper process has not exited: its handlers and timers run.
WrapperRuns == wrapper.status = "up"

\* The names a setting is read from, in the order of their precedence.
Prefixes == <<"OPENCLAW", "MOLTBOT", "CLAWDBOT">>
IdleBoot == [pc |-> "idle", setting |-> "none",
             env |-> [i \in 1..Len(Prefixes) |-> "undefined"], value |-> "none"]
BootAtRest == boot = IdleBoot

MaxFwd == 3        \* requests handed to the proxy in one run
IdleTx == [pc |-> "idle", logged |-> FALSE]
IdleFwd == [backend |-> "down", tx |-> [i \in 1..MaxFwd |-> IdleTx]]
FwdAtRest == fwd = IdleFwd

IdleConf == [files |-> {}, explicit |-> "", last |-> "none"]
ConfAtRest == conf = IdleConf

-----------------------------------------------------------------------------
\* The archive and token model: paths, directory trees and archives.

\* Bounds of this model.
MaxRuns == 2       \* starts of the wrapper
MaxImports == 2    \* imports begun

\* Tokens are numbers: 0 is "no token"; the wrapper started for the n-th time
\* draws n from crypto.randomBytes; the other two come from outside.
ForeignToken == MaxRuns + 1
OperatorToken == MaxRuns + 2

\* A path is the sequence of its segments below "/".
\* The layout of the README (a volume at /data), a legacy state directory
\* with the default workspace inside it, and the default without /data.
ReadmeLayout == [state |-> <<"data", ".openclaw">>, workspace |-> <<"data", "workspace">>]
Layouts ==
    { ReadmeLayout,
      [state |-> <<"data", ".clawdbot">>, workspace |-> <<"data", ".clawdbot", "workspace">>],
      [state |-> <<"home", "u", ".openclaw">>, workspace |-> <<"home", "u", ".openclaw", "workspace">>] }
STATE_DIR == dirs.state
WORKSPACE_DIR == dirs.workspace
\* WORKSPACE_DIR !== path.join(STATE_DIR, "workspace")
workspaceSeparate == WORKSPACE_DIR # STATE_DIR \o <<"workspace">>

\* The config file: what it says apart from the gateway token, and the token.
NoFile == [id |-> "none", tok |-> 0]
Config(i, t) == [id |-> i, tok |-> t]

\* A state directory: its config file and its gateway.token file.
AbsentTree == [exists |-> FALSE, cfg |-> NoFile, tokenFile |-> 0]
Tree(c, t) == [exists |-> TRUE, cfg |-> c, tokenFile |-> t]
EmptyTree == Tree(NoFile, 0)

\* An archive: the paths of its entries, the content of the config file and
\* of the token file it carries, and whether it is a readable tar.gz.
NoUpload == [entries |-> {}, cfg |-> NoFile, tokenFile |-> 0, corrupt |-> FALSE, exported |-> FALSE]
Uploads ==
    { [NoUpload EXCEPT !.entries = {<<".openclaw">>, <<".openclaw", "openclaw.json">>,
                                    <<".openclaw", "gateway.token">>, <<"workspace">>},
                       !.cfg = Config("B", ForeignToken), !.tokenFile = ForeignToken],
      [NoUpload EXCEPT !.entries = {<<".clawdbot">>, <<".clawdbot", "openclaw.json">>,
                                    <<"..", "..", "etc", "passwd">>},
                       !.cfg = Config("B", ForeignToken)],
      [NoUpload EXCEPT !.entries = {<<"notes">>, <<"..", "x">>}],
      [NoUpload EXCEPT !.corrupt = TRUE] }

\* entryPath.includes(".."), segment by segment.
includesDotDot(e) == \E i \in 1..Len(e) : e[i] \in {"..", "a..b"}
\* The filter handed to tar.x.
filter(e) == ~includesDotDot(e)
\* What tar.x leaves in extractDir.
extracted(a) == {e \in a.entries : filter(e)}
extractedContents(a) == {e[1] : e \in extracted(a)}
hasOpenclaw(a) == ".openclaw" \in extractedContents(a)
hasClawdbot(a) == ".clawdbot" \in extractedContents(a)
hasMoltbot(a) == ".moltbot" \in extractedContents(a)
hasWorkspace(a) == "workspace" \in extractedContents(a)
validBackup(a) == hasOpenclaw(a) \/ hasClawdbot(a) \/ hasMoltbot(a)
sourceStateDir(a) ==
    IF hasOpenclaw(a) THEN ".openclaw" ELSE IF hasClawdbot(a) THEN ".clawdbot" ELSE ".moltbot"
\* The tree found in extractDir under sourceStateDir.
sourceTree(a) ==
    Tree(IF <<sourceStateDir(a), "openclaw.json">> \in extracted(a) THEN a.cfg ELSE NoFile,
         IF <<sourceStateDir(a), "gateway.token">> \in extracted(a) THEN a.tokenFile ELSE 0)

\* GET /setup/export: the two paths handed to tar.c and the archive made of
\* the state directory t found at STATE_DIR.
underData(p) == Len(p) >= 1 /\ p[1] = "data"
exportPaths ==
    IF underData(STATE_DIR) /\ underData(WORKSPACE_DIR)
    THEN <<Tail(STATE_DIR), Tail(WORKSPACE_DIR)>>
    ELSE <<STATE_DIR, WORKSPACE_DIR>>
exportArchive(t) ==
    LET sp == exportPaths[1]
        wp == exportPaths[2]
    IN  [NoUpload EXCEPT
           !.entries = {e \in {sp, wp} : Len(e) >= 1}
                       \cup (IF t.cfg # NoFile THEN {sp \o <<"openclaw.json">>} ELSE {})
                       \cup (IF t.tokenFile # 0 THEN {sp \o <<"gateway.token">>} ELSE {}),
           !.cfg = t.cfg,
           !.tokenFile = t.tokenFile,
           !.exported = TRUE]

\* resolveGatewayToken(): the token a start of the wrapper resolves when the
\* state directory is t and crypto.randomBytes gives generated.
resolveGatewayToken(t, generated) ==
    IF envTok # 0 THEN envTok
    ELSE IF t.exists /\ t.tokenFile # 0 THEN t.tokenFile
    ELSE generated
\* It writes the token file when it generated one.
generatesToken(t) == envTok = 0 /\ ~(t.exists /\ t.tokenFile # 0)

ImportFinished == {"200", "400", "500"}
IdleImp == [pc |-> "idle", arch |-> NoUpload, pre |-> AbsentTree, relocated |-> FALSE, n |-> 0]

\* The archive and token model at rest.
ImportAtRest ==
    /\ dirs = ReadmeLayout
    /\ envTok = 0
    /\ GATEWAY_TOKEN = 1
    /\ runs = 1
    /\ firstPersisted = 0
    /\ disk = [state |-> AbsentTree, workspace |-> "absent", backups |-> {}, staging |-> FALSE]
    /\ imp = IdleImp
    /\ gw = 0
    /\ exported = NoUpload

-----------------------------------------------------------------------------
Init ==
    /\ stateDir \in {Dir("local", FALSE), Dir("local", TRUE)}
    /\ workspaceDir = Dir("local", FALSE)
    /\ gatewayProc = 0
    /\ gatewayStarting = 0
    /\ proc = [p \in Procs |-> "none"]
    /\ port = 0
    /\ attempt = [p \in Procs |-> "none"]
    /\ req = [r \in Reqs |-> IdleReq]
    /\ ImportAtRest
    /\ RunCmdAtRest
    /\ ProbeAtRest
    /\ AuthAtRest
    /\ WrapperAtRest
    /\ BootAtRest
    /\ FwdAtRest
    /\ ConfAtRest

-----------------------------------------------------------------------------
\* The fallthrough middleware (app.use after the routes).  setup: the path
\* starts with "/setup" and matched no route.
Fallthrough(r, setup) ==
    LET rec == [req[r] EXCEPT !.kind = IF setup THEN "httpSetup" ELSE "http"]
    IN  /\ UNCHANGED nonGatewayVars
        /\ WrapperRuns
        /\ CanStart(r)
        /\ UNCHANGED <<stateDir, port>>
        /\ IF ~isConfigured /\ ~setup
           THEN /\ req' = [req EXCEPT ![r] = Done(rec, "redirect", "none")]
                /\ UNCHANGED <<gatewayProc, gatewayStarting, proc, attempt, workspaceDir>>
           ELSE IF isConfigured
           THEN ensureGatewayRunning(r, rec, gatewayProc, proc)
           ELSE /\ req' = [req EXCEPT ![r] = Done(rec, "forwarded", "none")]
                /\ UNCHANGED <<gatewayProc, gatewayStarting, proc, attempt, workspaceDir>>

\* server.on("upgrade")
Upgrade(r) ==
    LET rec == [req[r] EXCEPT !.kind = "ws"]
    IN  /\ UNCHANGED nonGatewayVars
        /\ WrapperRuns
        /\ CanStart(r)
        /\ UNCHANGED <<stateDir, port>>
        /\ IF ~isConfigured
           THEN /\ req' = [req EXCEPT ![r] = Done(rec, "destroyed", "none")]
                /\ UNCHANGED <<gatewayProc, gatewayStarting, proc, attempt, workspaceDir>>
           ELSE ensureGatewayRunning(r, rec, gatewayProc, proc)

\* The backend's CLI writes its config file into STATE_DIR.
writeConfig(d) == IF d.exists THEN [d EXCEPT !.config = TRUE] ELSE Dir("local", TRUE)

\* POST /setup/api/run up to its first await.
SetupRun(r) ==
    LET rec == [req[r] EXCEPT !.kind = "run"]
    IN  /\ UNCHANGED nonGatewayVars
        /\ WrapperRuns
        /\ CanStart(r)
        /\ UNCHANGED port
        /\ IF isConfigured
           THEN /\ ensureGatewayRunning(r, rec, gatewayProc, proc)
                /\ UNCHANGED stateDir
           ELSE /\ stateDir' = mkdirSync(stateDir)
                /\ workspaceDir' = mkdirSync(workspaceDir)
                /\ req' = [req EXCEPT ![r] = [rec EXCEPT !.pc = "onboard"]]
                /\ UNCHANGED <<gatewayProc, gatewayStarting, proc, attempt>>

\* The onboarding command ends: it wrote the config file or not, with exit
\* code 0 or not; ok = onboard.code === 0 && isConfigured().
OnboardDone(r) ==
    /\ UNCHANGED nonGatewayVars
    /\ WrapperRuns
    /\ ~Busy
    /\ req[r].kind = "run" /\ req[r].pc = "onboard"
    /\ \E wrote \in BOOLEAN, code0 \in BOOLEAN :
         LET d == IF wrote THEN writeConfig(stateDir) ELSE stateDir
         IN  /\ stateDir' = d
             /\ req' = [req EXCEPT ![r] =
                          IF code0 /\ isConfiguredDir(d)
                          THEN [req[r] EXCEPT !.pc = "cfgset"]
                          ELSE Done(req[r], "500", "none")]
    /\ UNCHANGED <<workspaceDir, gatewayProc, gatewayStarting, proc, port, attempt>>

\* The "config set" commands run (runCmd never rejects); they may create
\* the config file.
ConfigSetRuns(r) ==
    /\ UNCHANGED nonGatewayVars
    /\ WrapperRuns
    /\ ~Busy
    /\ req[r].pc = "cfgset"
    /\ \E wrote \in BOOLEAN :
         stateDir' = IF wrote THEN writeConfig(stateDir) ELSE stateDir
    /\ req' = [req EXCEPT ![r].pc = "cfgdone"]
    /\ UNCHANGED <<workspaceDir, gatewayProc, gatewayStarting, proc, port, attempt>>

\* await restartGateway() in POST /setup/api/run and POST /setup/import.
ConfigSetDone(r) ==
    /\ UNCHANGED nonGatewayVars
    /\ WrapperRuns
    /\ ~Busy
    /\ req[r].pc = "cfgdone"
    /\ restartGateway(r, req[r])
    /\ UNCHANGED <<stateDir, port>>

\* restartGateway after sleep(750).
RestartAfterSleep(r) ==
    /\ UNCHANGED nonGatewayVars
    /\ WrapperRuns
    /\ ~Busy
    /\ req[r].pc = "restartSleep"
    /\ ensureGatewayRunning(r, [req[r] EXCEPT !.restarted = TRUE], HandleAfterSleep, proc)
    /\ UNCHANGED <<stateDir, port>>

\* POST /setup/api/reset: fs.rmSync(configPath(), { force: true })
Reset ==
    /\ UNCHANGED nonGatewayVars
    /\ WrapperRuns
    /\ ~Busy
    /\ isConfigured
    /\ stateDir' = [stateDir EXCEPT !.config = FALSE]
    /\ UNCHANGED <<workspaceDir, gatewayProc, gatewayStarting, proc, port, attempt, req>>

-----------------------------------------------------------------------------
\* POST /setup/import

\* The live directories are renamed to their timestamped backups.
Relocate ==
    /\ stateDir' = AbsentDir
    /\ workspaceDir' = AbsentDir

\* The handler up to its first await after the extraction: the staging
\* directory is created, the upload extracted into it (which touches nothing
\* outside it) and validated, then the gateway is stopped.
ImportStart(r, a) ==
    LET rec == [req[r] EXCEPT !.kind = "import", !.arch = a]
    IN  /\ UNCHANGED nonGatewayVars
        /\ WrapperRuns
        /\ CanStart(r)
        /\ UNCHANGED <<gatewayStarting, port, attempt>>
        /\ IF ~hasStateMarker(a)
           THEN /\ req' = [req EXCEPT ![r] = Done(rec, "400", "none")]
                /\ UNCHANGED <<stateDir, workspaceDir, gatewayProc, proc>>
           ELSE IF gatewayProc # 0
           THEN /\ proc' = kill(proc, gatewayProc)
                /\ req' = [req EXCEPT ![r] = [rec EXCEPT !.pc = "stopSleep"]]
                /\ UNCHANGED <<stateDir, workspaceDir, gatewayProc>>
           ELSE /\ Relocate
                /\ req' = [req EXCEPT ![r] = [rec EXCEPT !.pc = "relocated"]]
                /\ UNCHANGED <<gatewayProc, proc>>

\* After sleep(750): gatewayProc = null, then the backup renames.
ImportAfterSleep(r) ==
    /\ UNCHANGED nonGatewayVars
    /\ WrapperRuns
    /\ ~Busy
    /\ req[r].pc = "stopSleep"
    /\ gatewayProc' = HandleAfterSleep
    /\ Relocate
    /\ req' = [req EXCEPT ![r].pc = "relocated"]
    /\ UNCHANGED <<gatewayStarting, proc, port, attempt>>

\* moveDir of the extracted state (and workspace) into the live locations,
\* then the first "config set" command is awaited.
ImportInstall(r) ==
    /\ UNCHANGED nonGatewayVars
    /\ WrapperRuns
    /\ req[r].pc = "relocated"
    /\ stateDir' = Dir("arch", req[r].arch.config)
    /\ workspaceDir' = IF req[r].arch.ws THEN Dir("arch", FALSE) ELSE workspaceDir
    /\ req' = [req EXCEPT ![r].pc = "cfgset"]
    /\ UNCHANGED <<gatewayProc, gatewayStarting, proc, port, attempt>>

-----------------------------------------------------------------------------
\* The startup attempt: waitForGatewayReady and the .finally of the attempt.

\* fetch(GATEWAY_TARGET + "/openclaw") gets a response.
ProbeAnswered == port # 0

\* A faulty variant of the .finally below: the slot keeps the attempt.
SlotKeptAfterAttempt == gatewayStarting
\* .finally(() => { gatewayStarting = null; })
SlotAfterAttempt == 0

\* A faulty variant of the test below: a timeout counts as ready.
TimeoutOutcomeOk == "ok"
\* if (!ready) throw new Error("Gateway did not become ready in time")
TimeoutOutcome == "threw"

Settle(res) ==
    /\ req' = [r \in Reqs |-> IF req[r].pc = "awaiting" THEN [Settled(req[r], res) EXCEPT !.att = 0]
                             ELSE IF req[r].pc \in Terminal THEN [req[r] EXCEPT !.att = 0]
                             ELSE req[r]]
    /\ gatewayStarting' = SlotAfterAttempt

AttemptReady ==
    /\ UNCHANGED nonGatewayVars
    /\ WrapperRuns
    /\ ~Busy
    /\ gatewayStarting # 0
    /\ ProbeAnswered
    /\ attempt' = [attempt EXCEPT ![gatewayStarting] = "ready"]
    /\ Settle("ok")
    /\ UNCHANGED <<stateDir, workspaceDir, gatewayProc, proc, port>>

\* A faulty variant of the test below: the loop has no deadline.
TimeoutNeverElapses == FALSE
\* while (Date.now() - start < timeoutMs) becomes false.
TimeoutElapses == TRUE

\* 20 s pass without a probe being answered.
AttemptTimeout ==
    /\ UNCHANGED nonGatewayVars
    /\ WrapperRuns
    /\ ~Busy
    /\ gatewayStarting # 0
    /\ TimeoutElapses
    /\ attempt' = [attempt EXCEPT ![gatewayStarting] = "timeout"]
    /\ Settle(TimeoutOutcome)
    /\ UNCHANGED <<stateDir, workspaceDir, gatewayProc, proc, port>>

-----------------------------------------------------------------------------
\* The backend processes.

\* A backend binds the loopback port.
Bind(p) ==
    /\ UNCHANGED nonGatewayVars
    /\ proc[p] = "alive"
    /\ port = 0
    /\ port' = p
    /\ UNCHANGED <<stateDir, workspaceDir, gatewayProc, gatewayStarting, proc, attempt, req>>

\* A backend exits (on its own or after SIGTERM); its "exit" handler runs.
Exit(p) ==
    /\ UNCHANGED nonGatewayVars
    /\ Alive(p)
    /\ proc' = [proc EXCEPT ![p] = "exited"]
    /\ port' = IF port = p THEN 0 ELSE port
    /\ gatewayProc' = HandleAfterExit(p)
    /\ UNCHANGED <<stateDir, workspaceDir, gatewayStarting, attempt, req>>

-----------------------------------------------------------------------------
Next ==
    \/ \E r \in Reqs, setup \in BOOLEAN : Fallthrough(r, setup)
    \/ \E r \in Reqs : Upgrade(r)
    \/ \E r \in Reqs : SetupRun(r)
    \/ \E r \in Reqs : OnboardDone(r)
    \/ \E r \in Reqs : ConfigSetRuns(r)
    \/ \E r \in Reqs : ConfigSetDone(r)
    \/ \E r \in Reqs : RestartAfterSleep(r)
    \/ Reset
    \/ \E r \in Reqs, a \in Archives : ImportStart(r, a)
    \/ \E r \in Reqs : ImportAfterSleep(r)
    \/ \E r \in Reqs : ImportInstall(r)
    \/ AttemptReady
    \/ AttemptTimeout
    \/ \E p \in Procs : Bind(p)
    \/ \E p \in Procs : Exit(p)

Spec == Init /\ [][Next]_vars

\* ensureGatewayRunning() called as it stands, by a caller that makes no test
\* of isConfigured() of its own.
EnsureCall(r) ==
    LET rec == [req[r] EXCEPT !.kind = "call"]
    IN  /\ UNCHANGED nonGatewayVars
        /\ WrapperRuns
        /\ CanStart(r)
        /\ UNCHANGED <<stateDir, port>>
        /\ ensureGatewayRunning(r, rec, gatewayProc, proc)

\* The supervisor with its handlers and with such callers.
SupervisorNext ==
    \/ Next
    \/ \E r \in Reqs : EnsureCall(r)

SupervisorSpec == Init /\ [][SupervisorNext]_vars

\* The event loop runs what is ready: the probe loop of waitForGatewayReady
\* is driven by timers and ends (answered or timed out), and the synchronous
\* block of the import runs to its end.
FairSpec ==
    /\ Spec
    /\ WF_vars(AttemptReady \/ AttemptTimeout)
    /\ \A r \in Reqs : WF_vars(ImportInstall(r))

-----------------------------------------------------------------------------
\* The archive and token model: a wrapper that is started, onboarded,
\* exported from and imported into, with one import handler at a time.

\* The supervisor and proxy model at rest.
GatewayAtRest ==
    /\ stateDir = Dir("local", FALSE)
    /\ workspaceDir = Dir("local", FALSE)
    /\ gatewayProc = 0
    /\ gatewayStarting = 0
    /\ proc = [p \in Procs |-> "none"]
    /\ port = 0
    /\ attempt = [p \in Procs |-> "none"]
    /\ req = [r \in Reqs |-> IdleReq]

\* The state directory after resolveGatewayToken: mkdirSync and writeFileSync
\* are best-effort (ok says whether they went through).
tokenPersisted(t, generated, ok) ==
    IF generatesToken(t) /\ ok THEN Tree(t.cfg, generated) ELSE t

\* The first start of the wrapper, on a volume without a state directory
\* or with an empty one.
FirstStart(layouts, overrides) ==
    /\ GatewayAtRest
    /\ RunCmdAtRest
    /\ ProbeAtRest
    /\ AuthAtRest
    /\ WrapperAtRest
    /\ BootAtRest
    /\ FwdAtRest
    /\ ConfAtRest
    /\ dirs \in layouts
    /\ envTok \in overrides
    /\ runs = 1
    /\ \E t \in {AbsentTree, EmptyTree}, ok \in BOOLEAN :
         /\ GATEWAY_TOKEN = resolveGatewayToken(t, 1)
         /\ firstPersisted = IF generatesToken(t) /\ ok THEN 1 ELSE 0
         /\ disk = [state |-> tokenPersisted(t, 1, ok), workspace |-> "absent",
                    backups |-> {}, staging |-> FALSE]
    /\ imp = IdleImp
    /\ gw = 0
    /\ exported = NoUpload

ImportInit == FirstStart({ReadmeLayout}, {0, OperatorToken})
\* Every layout, without an operator's token.
LayoutInit == FirstStart(Layouts, {0})

NoImportRunning == imp.pc \in {"idle"} \cup ImportFinished

\* The wrapper is stopped and started again: module scope runs once more.
WrapperStart ==
    /\ UNCHANGED nonImportVars
    /\ NoImportRunning
    /\ runs < MaxRuns
    /\ runs' = runs + 1
    /\ \E ok \in BOOLEAN :
         /\ GATEWAY_TOKEN' = resolveGatewayToken(disk.state, runs + 1)
         /\ disk' = [disk EXCEPT !.state = tokenPersisted(disk.state, runs + 1, ok)]
         /\ firstPersisted' = IF firstPersisted = 0 /\ generatesToken(disk.state) /\ ok
                              THEN runs + 1 ELSE firstPersisted
    /\ gw' = 0
    /\ imp' = [IdleImp EXCEPT !.n = imp.n]
    /\ UNCHANGED <<dirs, envTok, exported>>

\* POST /setup/api/run on a wrapper that is not configured: the onboarding
\* writes the config file with the wrapper's token, restartGateway starts
\* the backend or fails to.
Onboard ==
    /\ UNCHANGED nonImportVars
    /\ NoImportRunning
    /\ disk.state.cfg = NoFile
    /\ disk' = [disk EXCEPT !.state = Tree(Config("A", GATEWAY_TOKEN), disk.state.tokenFile)]
    /\ gw' \in {gw, GATEWAY_TOKEN}
    /\ UNCHANGED <<dirs, envTok, GATEWAY_TOKEN, runs, firstPersisted, imp, exported>>

\* GET /setup/export
Export ==
    LET t == IF disk.state.exists THEN disk.state ELSE EmptyTree
    IN  /\ UNCHANGED nonImportVars
        /\ NoImportRunning
        /\ disk' = [disk EXCEPT !.state = t,
                                !.workspace = IF workspaceSeparate /\ @ = "absent" THEN "local" ELSE @]
        /\ exported' = exportArchive(t)
        /\ UNCHANGED <<dirs, envTok, GATEWAY_TOKEN, runs, firstPersisted, imp, gw>>

\* The finally block of the import handler: fs.rmSync(stagingDir).
rmStagingOnSuccess(code, staging) == IF code = "200" THEN FALSE ELSE staging
rmStaging(code, staging) == FALSE

\* The handler answers with code after d is what it made of the disk.
Answer(code, d) ==
    /\ imp' = [imp EXCEPT !.pc = code]
    /\ disk' = [d EXCEPT !.staging = rmStaging(code, d.staging)]

\* POST /setup/import up to "await tar.x": the staging directory is created
\* (or mkdirSync throws) and the upload written into it.
ImportBegin(a) ==
    LET rec == [IdleImp EXCEPT !.n = imp.n + 1, !.arch = a]
    IN  /\ UNCHANGED nonImportVars
        /\ NoImportRunning
        /\ imp.n < MaxImports
        /\ \/ /\ imp' = [rec EXCEPT !.pc = "extracting"]
              /\ disk' = [disk EXCEPT !.staging = TRUE]
           \/ /\ imp' = [rec EXCEPT !.pc = "500"]
              /\ disk' = disk
        /\ UNCHANGED <<dirs, envTok, GATEWAY_TOKEN, runs, firstPersisted, gw, exported>>

\* tar.x settles; the extracted top level is validated; the gateway is sent
\* SIGTERM when there is a handle.
ImportExtracted ==
    /\ UNCHANGED nonImportVars
    /\ imp.pc = "extracting"
    /\ IF imp.arch.corrupt THEN Answer("500", disk)
       ELSE IF ~validBackup(imp.arch) THEN Answer("400", disk)
       ELSE /\ imp' = [imp EXCEPT !.pc = IF gw # 0 THEN "stopSleep" ELSE "swap",
                                  !.pre = disk.state]
            /\ disk' = disk
    /\ UNCHANGED <<dirs, envTok, GATEWAY_TOKEN, runs, firstPersisted, gw, exported>>

\* After sleep(750): gatewayProc = null.
ImportStopped ==
    /\ UNCHANGED nonImportVars
    /\ imp.pc = "stopSleep"
    /\ gw' = 0
    /\ imp' = [imp EXCEPT !.pc = "swap"]
    /\ UNCHANGED <<dirs, envTok, GATEWAY_TOKEN, runs, firstPersisted, disk, exported>>

\* fs.renameSync(STATE_DIR, stateBackupPath): the backups afterwards.
stateBackupOverwrites(b, t) == {t}
stateBackup(b, t) == b \cup {t}

relocatedState(d) ==
    IF d.state.exists
    THEN [d EXCEPT !.backups = stateBackup(@, d.state), !.state = AbsentTree]
    ELSE d
relocatedWorkspace(d) ==
    IF d.workspace # "absent" /\ workspaceSeparate THEN [d EXCEPT !.workspace = "absent"] ELSE d
installedState(d, a) == [d EXCEPT !.state = sourceTree(a)]
installedWorkspace(d, a) ==
    IF hasWorkspace(a) /\ workspaceSeparate THEN [d EXCEPT !.workspace = "arch"] ELSE d

\* The calls of the swap that may throw, and whether the swap makes them.
SwapCalls == {"renameState", "renameWorkspace", "moveState", "moveWorkspace"}
swapMakes(d, a, f) ==
    CASE f = "renameState" -> d.state.exists
      [] f = "renameWorkspace" -> d.workspace # "absent" /\ workspaceSeparate
      [] f = "moveWorkspace" -> hasWorkspace(a) /\ workspaceSeparate
      [] OTHER -> TRUE
\* The disk when call f throws ("none": no call throws).
swapResult(d, a, f) ==
    CASE f = "renameState" -> d
      [] f = "renameWorkspace" -> relocatedState(d)
      [] f = "moveState" -> [relocatedWorkspace(relocatedState(d)) EXCEPT !.state = EmptyTree]
      [] f = "moveWorkspace" -> installedState(relocatedWorkspace(relocatedState(d)), a)
      [] OTHER -> installedWorkspace(installedState(relocatedWorkspace(relocatedState(d)), a), a)

\* The synchronous block from the backup renames to the first "config set".
ImportSwap ==
    /\ UNCHANGED nonImportVars
    /\ imp.pc = "swap"
    /\ \E f \in SwapCalls \cup {"none"} :
         /\ swapMakes(disk, imp.arch, f)
         /\ LET d == swapResult(disk, imp.arch, f)
                rec == [imp EXCEPT !.relocated = disk.state.exists /\ f # "renameState"]
            IN  IF f = "none"
                THEN /\ imp' = [rec EXCEPT !.pc = "cfgset"]
                     /\ disk' = d
                ELSE /\ imp' = [rec EXCEPT !.pc = "500"]
                     /\ disk' = [d EXCEPT !.staging = rmStaging("500", d.staging)]
    /\ UNCHANGED <<dirs, envTok, GATEWAY_TOKEN, runs, firstPersisted, gw, exported>>

\* "config set gateway.auth.token" and the other four "config set" commands:
\* the config file after them.  The handler does not look at their results.
configSet(c, tokOk, othersOk) ==
    IF tokOk THEN Config(IF c = NoFile THEN "cli" ELSE c.id, GATEWAY_TOKEN)
    ELSE IF othersOk /\ c = NoFile THEN Config("cli", 0)
    ELSE c

ImportConfigSet ==
    /\ UNCHANGED nonImportVars
    /\ imp.pc = "cfgset"
    /\ \E tokOk \in BOOLEAN, othersOk \in BOOLEAN :
         disk' = [disk EXCEPT !.state.cfg = configSet(@, tokOk, othersOk)]
    /\ imp' = [imp EXCEPT !.pc = "restart"]
    /\ UNCHANGED <<dirs, envTok, GATEWAY_TOKEN, runs, firstPersisted, gw, exported>>

\* await restartGateway(), the answer and the finally block.
ImportRestart ==
    /\ UNCHANGED nonImportVars
    /\ imp.pc = "restart"
    /\ IF disk.state.cfg = NoFile \/ gw # 0
       THEN /\ Answer("200", disk)
            /\ gw' = gw
       ELSE \/ /\ Answer("200", disk)
               /\ gw' = GATEWAY_TOKEN
            \/ /\ Answer("500", disk)
               /\ gw' \in {0, GATEWAY_TOKEN}
    /\ UNCHANGED <<dirs, envTok, GATEWAY_TOKEN, runs, firstPersisted, exported>>

ImportNext ==
    \/ WrapperStart
    \/ Onboard
    \/ \E a \in Uploads : ImportBegin(a)
    \/ ImportExtracted
    \/ ImportStopped
    \/ ImportSwap
    \/ ImportConfigSet
    \/ ImportRestart

\* The same with exports, whose archives are uploaded as well.
LayoutNext ==
    \/ ImportNext
    \/ Export
    \/ exported.exported /\ ImportBegin(exported)

ImportSpec == ImportInit /\ [][ImportNext]_vars
LayoutSpec == LayoutInit /\ [][LayoutNext]_vars

-----------------------------------------------------------------------------
\* runCmd: a promise around one child process.

\* Bounds of this model.
MaxCmds == 2       \* runCmd calls
MaxChunks == 3     \* "data" events of one child

\* resolve(v) settles a pending promise and does nothing to a settled one.
resolve(p, v) == IF p.state = "pending" THEN [state |-> "resolved", value |-> v] ELSE p
\* code ?? 0
nullish(code, d) == IF code = "null" THEN d ELSE code

RunCmdInit ==
    /\ GatewayAtRest
    /\ ImportAtRest
    /\ ProbeAtRest
    /\ AuthAtRest
    /\ WrapperAtRest
    /\ BootAtRest
    /\ FwdAtRest
    /\ ConfAtRest
    /\ cmd = IdleCmd

\* runCmd(cmd, args): the executor runs childProcess.spawn, which returns a
\* child ("spawned"), returns a child whose "error" event comes on the next
\* tick (ENOENT, EACCES, EAGAIN, EMFILE, ENFILE: "failing"), or throws (any
\* other error of the spawn call, such as E2BIG for an argument longer than
\* the system allows); a throw in the executor rejects the promise.
runCmd(o) ==
    /\ UNCHANGED nonCmdVars
    /\ cmd.child \in {"none", "closed"}
    /\ cmd.promise.state # "pending"
    /\ cmd.n < MaxCmds
    /\ cmd' = [IdleCmd EXCEPT
                 !.n = cmd.n + 1,
                 !.child = CASE o = "spawned" -> "running"
                             [] o = "failing" -> "failing"
                             [] OTHER -> "none",
                 !.promise = [state |-> IF o = "threw" THEN "rejected" ELSE "pending",
                              value |-> NoResult]]

\* proc.stdout / proc.stderr "data": out += d.toString("utf8")
OnData(stream) ==
    /\ UNCHANGED nonCmdVars
    /\ cmd.child = "running"
    /\ Len(cmd.out) < MaxChunks
    /\ cmd' = [cmd EXCEPT !.out = Append(@, stream)]

\* proc.on("error")
OnError ==
    LET out == Append(cmd.out, "[spawn error]")
    IN  /\ UNCHANGED nonCmdVars
        /\ cmd.child = "failing"
        /\ cmd' = [cmd EXCEPT !.out = out,
                              !.child = "errored",
                              !.promise = resolve(@, [code |-> "127", output |-> out])]

\* proc.on("close"): after an exit with a code or by a signal (code null),
\* and after the "error" of a failed spawn (code: the negative errno).
OnClose(code) ==
    /\ UNCHANGED nonCmdVars
    /\ \/ cmd.child = "running" /\ code \in {"0", "1", "null"}
       \/ cmd.child = "errored" /\ code = "-2"
    /\ cmd' = [cmd EXCEPT !.child = "closed",
                          !.exit = code,
                          !.promise = resolve(@, [code |-> nullish(code, "0"), output |-> cmd.out])]

RunCmdNext ==
    \/ \E o \in {"spawned", "failing", "threw"} : runCmd(o)
    \/ \E stream \in {"stdout", "stderr"} : OnData(stream)
    \/ OnError
    \/ \E code \in {"0", "1", "null", "-2"} : OnClose(code)

RunCmdSpec == RunCmdInit /\ [][RunCmdNext]_vars

-----------------------------------------------------------------------------
\* waitForGatewayReady({ timeoutMs }): the clock counts poll intervals
\* (250 ms) from the call, Date.now() - start is probe.now.

\* Bounds of this model.
TimeoutTicks == 3  \* timeoutMs in poll intervals
MaxOverrun == 2    \* how far the clock runs past the timeout

ProbeInit ==
    /\ GatewayAtRest
    /\ ImportAtRest
    /\ RunCmdAtRest
    /\ AuthAtRest
    /\ WrapperAtRest
    /\ BootAtRest
    /\ FwdAtRest
    /\ ConfAtRest
    /\ probe = IdleProbe

\* The head of the while loop: another fetch, or return false.
loopHead(rec) ==
    IF rec.now < TimeoutTicks
    THEN [rec EXCEPT !.pc = "fetching", !.started = rec.now, !.probes = @ + 1]
    ELSE [rec EXCEPT !.pc = "done", !.result = "false"]

WaitCall ==
    /\ UNCHANGED nonProbeVars
    /\ probe.pc = "idle"
    /\ probe' = loopHead(probe)

\* Time passes while the function awaits the fetch or the sleep.
Tick ==
    /\ UNCHANGED nonProbeVars
    /\ probe.pc \in {"fetching", "sleeping"}
    /\ probe.now < TimeoutTicks + MaxOverrun
    /\ probe' = [probe EXCEPT !.now = @ + 1]

\* The fetch resolves with a response of any status: return true.
FetchResponds ==
    /\ UNCHANGED nonProbeVars
    /\ probe.pc = "fetching"
    /\ probe' = [probe EXCEPT !.pc = "done", !.result = "true",
                              !.responded = TRUE, !.respondedAt = probe.now]

\* The fetch rejects (connection refused, reset, ...): caught, then sleep(250).
FetchFails ==
    /\ UNCHANGED nonProbeVars
    /\ probe.pc = "fetching"
    /\ probe' = [probe EXCEPT !.pc = "sleeping", !.started = probe.now]

\* The sleep is over one poll interval after it began.
SleepEnds ==
    /\ UNCHANGED nonProbeVars
    /\ probe.pc = "sleeping"
    /\ probe.now >= probe.started + 1
    /\ probe' = loopHead(probe)

ProbeNext ==
    \/ WaitCall
    \/ Tick
    \/ FetchResponds
    \/ FetchFails
    \/ SleepEnds

ProbeSpec == ProbeInit /\ [][ProbeNext]_vars

-----------------------------------------------------------------------------
\* Steps and states the properties speak of.

\* The handler of request r calls ensureGatewayRunning in this step: it is
\* left awaiting the attempt, or the call returned at once.
EnsureCalled(r) ==
    /\ req[r].pc \in {"idle", "cfgdone", "restartSleep"}
    /\ \/ req'[r].pc = "awaiting"
       \/ req'[r].ens # "none"

\* gatewayProc as that call finds it: restartGateway clears it just before.
HandleAtCall(r) == IF req[r].pc = "restartSleep" THEN 0 ELSE gatewayProc

SpawnedNow == Cardinality(Spawned') = Cardinality(Spawned) + 1
NoSpawn == Spawned' = Spawned

Awaiting == {r \in Reqs : req[r].pc = "awaiting"}

-----------------------------------------------------------------------------
\* C1: concurrent calls of ensureGatewayRunning that start from "configured,
\* no handle, no attempt" spawn exactly one backend: the call that finds this
\* state spawns one process and opens the attempt; every call made while an
\* attempt is in flight spawns nothing and leaves the attempt in place; a
\* call stays pending only while an attempt is in flight; and no step other
\* than a call spawns.
C1_CallSpawns ==
    /\ \A r \in Reqs :
         EnsureCalled(r) =>
            /\ (isConfigured /\ HandleAtCall(r) = 0 /\ gatewayStarting = 0)
                  => (SpawnedNow /\ gatewayStarting' # 0 /\ req'[r].pc = "awaiting")
            /\ gatewayStarting # 0
                  => (NoSpawn /\ gatewayStarting' = gatewayStarting)
    /\ (\A r \in Reqs : ~EnsureCalled(r)) => NoSpawn
C1_SingleFlight ==
    /\ [](Awaiting # {} => gatewayStarting # 0)
    /\ [][C1_CallSpawns]_vars
\* Two calls pending on one attempt, one process spawned.
C1_Witness ==
    /\ Cardinality(Awaiting) >= 2
    /\ Cardinality(Spawned) = 1

\* C2: at most one backend process spawned by the wrapper is alive.
C2_AtMostOneAlive == Cardinality(AliveProcs) <= 1

\* C3: a call made while a startup attempt is in flight has not returned
\* success while that attempt is still unresolved.
C3_NoSuccessBeforeAttemptResolves ==
    \A r \in Reqs : req[r].ens = "ok" => req[r].att = 0

\* C4: called while not configured, ensureGatewayRunning gives the
\* not-configured failure, spawns nothing and leaves gatewayProc and
\* gatewayStarting as the call found them.
C4_Step ==
    \A r \in Reqs :
       (EnsureCalled(r) /\ ~isConfigured) =>
          /\ req'[r].ens = "notConfigured"
          /\ NoSpawn
          /\ gatewayProc' = HandleAtCall(r)
          /\ gatewayStarting' = gatewayStarting
C4_NotConfigured == [][C4_Step]_vars
C4_Witness == \E r \in Reqs : req[r].ens = "notConfigured"

\* C5: once restartGateway is past its sleep, gatewayProc is not the process
\* it held when restartGateway was called, and gatewayProc is only ever set
\* to a process spawned in that step, so it never holds that process again.
C5_HandleOnlyFresh ==
    /\ (gatewayProc' # gatewayProc /\ gatewayProc' # 0) => proc[gatewayProc'] = "none"
    /\ \A r \in Reqs :
         (req[r].pc = "restartSleep" /\ req'[r].pc # "restartSleep")
            => gatewayProc' # req[r].old
C5_RestartDropsOldHandle ==
    /\ [](\A r \in Reqs : (req[r].restarted /\ req[r].old # 0) => gatewayProc # req[r].old)
    /\ [][C5_HandleOnlyFresh]_vars
\* A restart that stopped a process and now awaits the one it spawned.
C5_Witness ==
    \E r \in Reqs : /\ req[r].restarted
                    /\ req[r].old # 0
                    /\ gatewayProc \notin {0, req[r].old}

\* C6: when a backend exits the handle is cleared, and a call of
\* ensureGatewayRunning that then finds the system configured and the handle
\* cleared spawns a new backend.
C6_Step ==
    /\ \A p \in Procs : (Alive(p) /\ proc'[p] = "exited") => gatewayProc' = 0
    /\ \A r \in Reqs :
         (/\ EnsureCalled(r)
          /\ isConfigured
          /\ HandleAtCall(r) = 0
          /\ \E p \in Procs : proc[p] = "exited") => SpawnedNow
C6_RespawnAfterExit == [][C6_Step]_vars

\* C7: a request is forwarded by the fallthrough middleware only after its
\* ensureGatewayRunning call succeeded, and is answered 503 when it failed.
C7_ForwardedOnlyAfterEnsure ==
    \A r \in Reqs :
       /\ req[r].pc = "forwarded" => req[r].ens = "ok"
       /\ (req[r].kind \in {"http", "httpSetup"} /\ req[r].ens = "threw") => req[r].pc = "503"

\* C8: an upgrade is handed to the proxy only after its ensureGatewayRunning
\* call succeeded; its socket is destroyed when the system is not configured
\* or the call failed; it is pending only while a startup attempt is, and
\* every pending upgrade ends proxied or destroyed (under FairSpec).
C8_Inv ==
    \A r \in Reqs :
       req[r].kind = "ws" =>
          /\ req[r].pc \in {"awaiting", "proxied", "destroyed"}
          /\ req[r].pc = "proxied" => req[r].ens = "ok"
          /\ req[r].ens = "threw" => req[r].pc = "destroyed"
          /\ req[r].pc = "awaiting" => (gatewayStarting # 0 /\ req[r].ens = "none")
C8_Step ==
    \A r \in Reqs :
       (req[r].pc = "idle" /\ req'[r].kind = "ws" /\ ~isConfigured)
          => (req'[r].pc = "destroyed" /\ req'[r].ens = "none")
C8_Ends ==
    \A r \in Reqs :
       (req[r].kind = "ws" /\ req[r].pc = "awaiting")
          ~> (req[r].pc \in {"proxied", "destroyed"})
C9_Step ==
    \A r \in Reqs :
       (req[r].pc = "idle" /\ req'[r].kind = "import" /\ ~req'[r].arch.marker) =>
          /\ req'[r].pc = "400"
          /\ UNCHANGED <<stateDir, workspaceDir, gatewayProc, gatewayStarting, proc, port, attempt>>
C9_InvalidImportChangesNothing ==
    /\ [](\A r \in Reqs : (req[r].kind = "import" /\ ~req[r].arch.marker) => req[r].pc = "400")
    /\ [][C9_Step]_vars
\* Rejected while configured with a live backend as the handle.
C9_Witness ==
    \E r \in Reqs :
       /\ req[r].kind = "import" /\ req[r].pc = "400"
       /\ isConfigured
       /\ gatewayProc # 0 /\ Alive(gatewayProc)

\* C10: while an import has relocated the live state directory and not yet
\* installed the extracted one, no backend process is alive.
C10_NoBackendDuringSwap == Busy => AliveProcs = {}

-----------------------------------------------------------------------------
\* Properties of the archive and token model.

\* The import in hand passed validation when a live state directory existed.
ValidatedWithLiveState == imp.pre.exists
\* The archive in hand has an entry whose path references a parent directory.
HasTraversalEntry == \E e \in imp.arch.entries : \E i \in 1..Len(e) : e[i] = ".."

\* C11, as stated: an import that passed validation while a live state
\* directory existed and has been answered, with success or failure, has
\* left a backup that holds the state directory as it was.
C11_BackupAfterEveryValidatedImport ==
    (imp.pc \in {"200", "500"} /\ ValidatedWithLiveState) => imp.pre \in disk.backups
\* C11, amended: once an import has relocated the live state directory, a
\* backup holds the state directory as it was; an import answered without
\* having relocated it has left the state directory as it was; and no step
\* of the wrapper removes a backup.
C11_Step ==
    /\ disk.backups \subseteq disk.backups'
    /\ (/\ imp.pc \notin ImportFinished
        /\ imp'.pc \in ImportFinished
        /\ imp'.pre.exists
        /\ ~imp'.relocated) => disk'.state = imp'.pre
C11_BackupOnceRelocated ==
    /\ [](imp.relocated => imp.pre \in disk.backups)
    /\ [][C11_Step]_vars
\* A second import failed after its relocation: both backups are there.
C11_Witness ==
    /\ imp.pc = "500"
    /\ imp.relocated
    /\ Cardinality(disk.backups) >= 2

\* C12: when an import has answered success, the token in the config file
\* and the token the backend held by gatewayProc was started with are the
\* wrapper's GATEWAY_TOKEN.
C12_TokenAfterImport ==
    imp.pc = "200" =>
       /\ disk.state.cfg.tok = GATEWAY_TOKEN
       /\ gw # 0 => gw = GATEWAY_TOKEN

\* C13: without an operator's token, every start of the wrapper resolves the
\* token that was first written to the token file.
C13_TokenStable ==
    (envTok = 0 /\ firstPersisted # 0) => GATEWAY_TOKEN = firstPersisted

\* C14: in every layout, an import of the archive the export produced is not
\* refused as an invalid backup, and when it succeeds the config file says
\* what it said when exported (the token apart).
C14_RoundTrip ==
    imp.arch.exported =>
       /\ imp.pc # "400"
       /\ (imp.pc = "200" /\ imp.arch.cfg # NoFile) => disk.state.cfg.id = imp.arch.cfg.id

\* C15: an import of an archive with an entry that references a parent
\* directory gets no further than the validation: it never stops the
\* gateway, relocates or installs anything, or answers success.
C15_TraversalRejected ==
    HasTraversalEntry => imp.pc \in {"idle", "extracting", "400", "500"} /\ ~imp.relocated

-----------------------------------------------------------------------------
\* Properties of runCmd.

\* C17: the promise of runCmd is never rejected; it is resolved once the
\* child has closed or failed; an exit with a non-zero code resolves it with
\* that code; a failed spawn resolves it with a non-zero code and the error
\* text at the end of the output.
C17_RunCmdUniform ==
    /\ cmd.promise.state # "rejected"
    /\ cmd.child \in {"errored", "closed"} => cmd.promise.state = "resolved"
    /\ (cmd.child = "closed" /\ cmd.exit \notin {"0", "null", "-2"})
          => cmd.promise.value.code = cmd.exit
    /\ (cmd.child = "errored" \/ cmd.exit = "-2")
          => /\ cmd.promise.value.code # "0"
             /\ cmd.promise.value.output # <<>>
             /\ cmd.promise.value.output[Len(cmd.promise.value.output)] = "[spawn error]"

-----------------------------------------------------------------------------
\* Properties of waitForGatewayReady.

\* C18: waitForGatewayReady returns true exactly when a probe got a response
\* before the timeout had elapsed, false when none did, and a probe that
\* failed is followed by the next one no sooner than a poll interval later.
C18_ReadyIffAnsweredInTime ==
    /\ probe.result = "true" <=> (probe.responded /\ probe.respondedAt < TimeoutTicks)
    /\ probe.result = "false" => (~probe.responded /\ probe.now >= TimeoutTicks)
    /\ probe.pc = "done" => probe.result \in {"true", "false"}
    /\ probe.pc = "fetching" => probe.started >= probe.probes - 1

-----------------------------------------------------------------------------
\* The HTTP surface: the middleware chain of one request.
\*
\* A path is the sequence of its segments; the Authorization header is its
\* scheme and the text its second word decodes to (empty when there is no
\* second word).  The paths below are such that the string prefix tests of
\* the code and the test on the first segment agree.

SetupHealthz == <<"setup", "healthz">>

\* The routes registered on the app, in order.
Routes ==
    { [method |-> "GET",  path |-> SetupHealthz],
      [method |-> "GET",  path |-> <<"setup", "app.js">>],
      [method |-> "GET",  path |-> <<"setup">>],
      [method |-> "GET",  path |-> <<"setup", "api", "status">>],
      [method |-> "POST", path |-> <<"setup", "api", "run">>],
      [method |-> "GET",  path |-> <<"setup", "api", "debug">>],
      [method |-> "POST", path |-> <<"setup", "api", "pairing", "approve">>],
      [method |-> "POST", path |-> <<"setup", "api", "reset">>],
      [method |-> "POST", path |-> <<"setup", "api", "fix-config">>],
      [method |-> "POST", path |-> <<"setup", "api", "doctor">>],
      [method |-> "POST", path |-> <<"setup", "api", "fix-permissions">>],
      [method |-> "GET",  path |-> <<"setup", "api", "token">>],
      [method |-> "GET",  path |-> <<"setup", "dashboard">>],
      [method |-> "GET",  path |-> <<"setup", "export">>],
      [method |-> "POST", path |-> <<"setup", "import">>] }

PUBLIC_ROUTE_PREFIXES == {"telegram", "discord", "slack", "webhook", "healthz"}

startsWith(path, prefix) == path # <<>> /\ path[1] = prefix
isPublicRoute(path) == \E prefix \in PUBLIC_ROUTE_PREFIXES : startsWith(path, prefix)

\* decoded.indexOf(":"), counted from 0, -1 when there is none.
indexOf(s, c) ==
    IF \E i \in 1..Len(s) : s[i] = c
    THEN (CHOOSE i \in 1..Len(s) : s[i] = c /\ \A j \in 1..(i - 1) : s[j] # c) - 1
    ELSE -1

slice(s, from) == SubSeq(s, from + 1, Len(s))

password(decoded) ==
    IF indexOf(decoded, ":") >= 0 THEN slice(decoded, indexOf(decoded, ":") + 1) ELSE <<>>

\* The check both middlewares make once they have decided to protect the
\* request: "500" without SETUP_PASSWORD, "401" without the Basic password.
basicAuth(header) ==
    IF SETUP_PASSWORD = <<>> THEN "500"
    ELSE IF header.scheme # "Basic" \/ header.decoded = <<>> THEN "401"
    ELSE IF password(header.decoded) # SETUP_PASSWORD THEN "401"
    ELSE "next"

requireSetupAuth(header) == basicAuth(header)

requireControlUiAuth(path, header) ==
    IF isPublicRoute(path) THEN "next"
    ELSE IF ~startsWith(path, "openclaw") THEN "next"
    ELSE basicAuth(header)

\* The requests and the environment they arrive in.
Passwords == { <<>>, <<"p">>, <<"p", ":", "q">> }
Methods == {"GET", "POST"}
Paths ==
    { <<"setup">>, SetupHealthz, <<"setup", "api", "status">>,
      <<"setup", "api", "reset">>, <<"setup", "export">>, <<"setup", "x">>,
      <<"openclaw">>, <<"telegram">>, <<"chat">> }
Headers ==
    { NoHeader,
      [scheme |-> "Basic",  decoded |-> <<>>],
      [scheme |-> "Basic",  decoded |-> <<"p">>],
      [scheme |-> "Basic",  decoded |-> <<":", "p">>],
      [scheme |-> "Basic",  decoded |-> <<"u", ":", "p">>],
      [scheme |-> "Basic",  decoded |-> <<"u", ":", "p", ":", "q">>],
      [scheme |-> "Basic",  decoded |-> <<"u", ":", "q">>],
      [scheme |-> "Bearer", decoded |-> <<"u", ":", "p">>] }
Protos == {"", "http", "https"}

AuthInit ==
    /\ GatewayAtRest
    /\ ImportAtRest
    /\ RunCmdAtRest
    /\ ProbeAtRest
    /\ WrapperAtRest
    /\ BootAtRest
    /\ FwdAtRest
    /\ ConfAtRest
    /\ SETUP_PASSWORD \in Passwords
    /\ http = IdleHttp

answered(code) == [http EXCEPT !.pc = "done", !.answer = code]

\* A request arrives.
Receive(m, p, h, x, c, g) ==
    /\ UNCHANGED nonAuthVars
    /\ http.pc = "idle"
    /\ http' = [pc |-> "https", method |-> m, path |-> p, header |-> h,
                proto |-> x, configured |-> c, gatewayUp |-> g,
                upgrade |-> FALSE, answer |-> "none"]
    /\ UNCHANGED SETUP_PASSWORD

\* The first middleware: plain http behind the TLS terminator is redirected.
ForceHttps ==
    /\ UNCHANGED nonAuthVars
    /\ http.pc = "https"
    /\ http' = IF http.proto # "" /\ http.proto # "https"
               THEN answered("301")
               ELSE [http EXCEPT !.pc = "router"]
    /\ UNCHANGED SETUP_PASSWORD

\* The routes: the health endpoint is open, every other route runs
\* requireSetupAuth before its handler; a request no route matches goes on.
Router ==
    /\ UNCHANGED nonAuthVars
    /\ http.pc = "router"
    /\ http' = IF [method |-> http.method, path |-> http.path] \notin Routes
               THEN [http EXCEPT !.pc = "controlUi"]
               ELSE IF http.path = SetupHealthz THEN answered("served")
               ELSE IF requireSetupAuth(http.header) = "next" THEN answered("served")
               ELSE answered(requireSetupAuth(http.header))
    /\ UNCHANGED SETUP_PASSWORD

\* app.use(requireControlUiAuth).
ControlUiAuth ==
    /\ UNCHANGED nonAuthVars
    /\ http.pc = "controlUi"
    /\ http' = IF requireControlUiAuth(http.path, http.header) = "next"
               THEN [http EXCEPT !.pc = "proxy"]
               ELSE answered(requireControlUiAuth(http.path, http.header))
    /\ UNCHANGED SETUP_PASSWORD

\* The last middleware: redirect to /setup, or start the gateway if need be
\* and hand the request to the proxy.
ProxyWeb ==
    /\ UNCHANGED nonAuthVars
    /\ http.pc = "proxy"
    /\ \/ /\ ~http.configured
          /\ ~startsWith(http.path, "setup")
          /\ http' = answered("302")
       \/ /\ http.configured
          /\ ~http.gatewayUp
          /\ http' = answered("503")
       \/ /\ http.configured
          /\ http' = [answered("forwarded") EXCEPT !.gatewayUp = TRUE]
       \/ /\ ~http.configured
          /\ startsWith(http.path, "setup")
          /\ http' = answered(IF http.gatewayUp THEN "forwarded" ELSE "proxyError")
    /\ UNCHANGED SETUP_PASSWORD

\* The test the "upgrade" listener makes before it starts the gateway.
upgradeAuth(path, header) ==
    IF startsWith(path, "openclaw") /\ SETUP_PASSWORD # <<>>
    THEN IF /\ header.scheme = "Basic"
            /\ header.decoded # <<>>
            /\ password(header.decoded) = SETUP_PASSWORD
         THEN "next"
         ELSE "401"
    ELSE "next"

\* A WebSocket upgrade arrives: it goes to the "upgrade" listener of the
\* server, not through the middlewares of the app.
ReceiveUpgrade(p, h, c, g) ==
    /\ UNCHANGED nonAuthVars
    /\ http.pc = "idle"
    /\ http' = [IdleHttp EXCEPT !.pc = "upgrade", !.path = p, !.header = h,
                                !.configured = c, !.gatewayUp = g, !.upgrade = TRUE]
    /\ UNCHANGED SETUP_PASSWORD

\* server.on("upgrade"): the socket is destroyed when not configured or
\* when ensureGatewayRunning rejects, closed with 401 when the test fails,
\* and handed to proxy.ws otherwise.
OnUpgrade ==
    /\ UNCHANGED nonAuthVars
    /\ http.pc = "upgrade"
    /\ \/ /\ ~http.configured
          /\ http' = answered("destroyed")
       \/ /\ http.configured
          /\ upgradeAuth(http.path, http.header) = "401"
          /\ http' = answered("401")
       \/ /\ http.configured
          /\ upgradeAuth(http.path, http.header) = "next"
          /\ ~http.gatewayUp
          /\ http' = answered("destroyed")
       \/ /\ http.configured
          /\ upgradeAuth(http.path, http.header) = "next"
          /\ http' = [answered("forwarded") EXCEPT !.gatewayUp = TRUE]
    /\ UNCHANGED SETUP_PASSWORD

\* The response has been sent; the next request can be looked at.
ResponseEnd ==
    /\ UNCHANGED nonAuthVars
    /\ http.pc = "done"
    /\ http' = IdleHttp
    /\ UNCHANGED SETUP_PASSWORD

AuthNext ==
    \/ \E m \in Methods, p \in Paths, h \in Headers, x \in Protos,
          c \in BOOLEAN, g \in BOOLEAN : Receive(m, p, h, x, c, g)
    \/ ForceHttps
    \/ Router
    \/ ControlUiAuth
    \/ ProxyWeb
    \/ \E p \in Paths, h \in Headers, c \in BOOLEAN, g \in BOOLEAN :
          ReceiveUpgrade(p, h, c, g)
    \/ OnUpgrade
    \/ ResponseEnd

AuthSpec == AuthInit /\ [][AuthNext]_vars

-----------------------------------------------------------------------------
\* Properties of the HTTP surface.

UnderSetup == startsWith(http.path, "setup") /\ http.path # SetupHealthz
CarriesPassword ==
    /\ http.header.scheme = "Basic"
    /\ password(http.header.decoded) = SETUP_PASSWORD

\* C19: a request under /setup, the health endpoint apart, is served or
\* forwarded to the backend only if SETUP_PASSWORD is set and the request
\* carries Basic credentials with that password.
C19_SetupNeedsPassword ==
    (UnderSetup /\ http.answer \in {"served", "forwarded"})
        => (SETUP_PASSWORD # <<>> /\ CarriesPassword)

-----------------------------------------------------------------------------
\* The wrapper process: what each failure does to it.
\*
\* wrapper.log is what the wrapper logged or answered, in order; the wrapper
\* is "up" until it exits on SIGTERM or is terminated by the runtime.

MaxEvents == 3

\* A rejected promise that nothing handles: the runtime terminates the
\* process, unless it was started to only warn about it.
unhandledRejection == {"crashed", "up"}

\* new URL(req.url, `http://${req.headers.host}`) throws for a request
\* target with an empty authority and for a Host that is not a host.
Urls == {"/openclaw", "/chat", "//"}
Hosts == {"h", "a b"}
validUrl(url, host) == url # "//" /\ host # "a b"

\* Places in the async route handlers where a call can throw, and whether a
\* try block of the handler encloses them.
ThrowSites ==
    { [in |-> "/setup/api/run",    call |-> "ensureGatewayRunning", try |-> TRUE],
      [in |-> "/setup/import",     call |-> "renameSync",           try |-> TRUE],
      [in |-> "/setup/import",     call |-> "restartGateway",       try |-> TRUE],
      [in |-> "/setup/api/status", call |-> "runCmd",               try |-> FALSE],
      [in |-> "/setup/export",     call |-> "mkdirSync",            try |-> FALSE] }

\* What the router does with a handler whose promise is rejected: it either
\* ignores the promise (the rejection is then unhandled) or answers 500.
RouterOnRejection == {"ignored", "500"}

WrapperInit ==
    /\ GatewayAtRest
    /\ ImportAtRest
    /\ RunCmdAtRest
    /\ ProbeAtRest
    /\ AuthAtRest
    /\ BootAtRest
    /\ FwdAtRest
    /\ ConfAtRest
    /\ wrapper = WrapperUp

logged(entry) == [wrapper EXCEPT !.log = Append(@, entry)]
CanLog == wrapper.status = "up" /\ Len(wrapper.log) < MaxEvents

\* gatewayProc.on("error"): the spawn failed.
GatewayError ==
    /\ UNCHANGED nonWrapperVars
    /\ CanLog
    /\ wrapper' = logged("[gateway] spawn error")

\* gatewayProc.on("exit"): the backend exited.
GatewayExit ==
    /\ UNCHANGED nonWrapperVars
    /\ CanLog
    /\ wrapper' = logged("[gateway] exited")

\* ensureGatewayRunning throws "Gateway did not become ready in time" in the
\* proxy middleware or the upgrade listener, both of which catch it.
ReadinessTimeout(caller) ==
    /\ UNCHANGED nonWrapperVars
    /\ CanLog
    /\ wrapper' = logged(IF caller = "upgrade" THEN "socket.destroy" ELSE "503")

\* proxy.on("error").
ProxyError ==
    /\ UNCHANGED nonWrapperVars
    /\ CanLog
    /\ wrapper' = logged("[proxy]")

\* A command run by runCmd fails: the promise is resolved with the code and
\* the handler reports it.
CommandFails ==
    /\ UNCHANGED nonWrapperVars
    /\ CanLog
    /\ wrapper' = logged("ok: false")

\* A call in an async route handler throws.
HandlerThrows(site, router) ==
    /\ UNCHANGED nonWrapperVars
    /\ CanLog
    /\ IF site.try \/ router = "500"
       THEN wrapper' = logged("500")
       ELSE \E status \in unhandledRejection :
               wrapper' = [logged("unhandledRejection") EXCEPT !.status = status]

\* server.on("upgrade", async ...).
UpgradeRequest(url, host, configured) ==
    /\ UNCHANGED nonWrapperVars
    /\ CanLog
    /\ IF ~configured THEN wrapper' = logged("socket.destroy")
       ELSE IF ~validUrl(url, host)
       THEN \E status \in unhandledRejection :
               wrapper' = [logged("unhandledRejection") EXCEPT !.status = status]
       ELSE wrapper' = logged("proxy.ws")

\* process.on("SIGTERM").
Sigterm ==
    /\ UNCHANGED nonWrapperVars
    /\ CanLog
    /\ wrapper' = [logged("SIGTERM") EXCEPT !.status = "exited"]

WrapperNext ==
    \/ GatewayError
    \/ GatewayExit
    \/ \E caller \in {"proxy", "upgrade"} : ReadinessTimeout(caller)
    \/ ProxyError
    \/ CommandFails
    \/ \E site \in ThrowSites, router \in RouterOnRejection : HandlerThrows(site, router)
    \/ \E url \in Urls, host \in Hosts, configured \in BOOLEAN :
          UpgradeRequest(url, host, configured)
    \/ Sigterm

WrapperSpec == WrapperInit /\ [][WrapperNext]_vars

-----------------------------------------------------------------------------
\* Properties of the wrapper process.

\* C20: the wrapper process stops only on a termination signal: whenever it
\* is no longer up, it has exited and the last thing it handled is SIGTERM.
C20_StopsOnlyOnSignal ==
    wrapper.status # "up"
        => /\ wrapper.status = "exited"
           /\ wrapper.log[Len(wrapper.log)] = "SIGTERM"

-----------------------------------------------------------------------------
\* The settings read from the environment when the module is loaded.
\*
\* boot.env[i] is the value of the name with prefix Prefixes[i] for the
\* setting in hand: "undefined" when the name is not in the environment, ""
\* when it is there but blank, else a value that says which name it came
\* from.  "default" stands for what the code falls back on.

Settings ==
    {"PUBLIC_PORT", "STATE_DIR", "WORKSPACE_DIR", "GATEWAY_TOKEN", "CONFIG_PATH", "ENTRY", "NODE"}

EnvValues(i) == {"undefined", "", Prefixes[i]}
Envs == {e \in [1..Len(Prefixes) -> {"undefined", ""} \cup {Prefixes[i] : i \in 1..Len(Prefixes)}] :
            \A i \in 1..Len(Prefixes) : e[i] \in EnvValues(i)}

\* The names each expression reads, in its order: the node binary reads
\* OPENCLAW_NODE twice and CLAWDBOT_NODE once.
Reads(setting) == IF setting = "NODE" THEN <<1, 1, 3>> ELSE <<1, 2, 3>>

\* a ?? b ?? c ?? d
nullishChain(vals, d) ==
    IF \E i \in 1..Len(vals) : vals[i] # "undefined"
    THEN vals[CHOOSE i \in 1..Len(vals) :
                 vals[i] # "undefined" /\ \A j \in 1..(i - 1) : vals[j] = "undefined"]
    ELSE d

\* a?.trim() || b?.trim() || c?.trim() || d
truthyChain(vals, d) ==
    IF \E i \in 1..Len(vals) : vals[i] \notin {"undefined", ""}
    THEN vals[CHOOSE i \in 1..Len(vals) :
                 vals[i] \notin {"undefined", ""} /\ \A j \in 1..(i - 1) : vals[j] \in {"undefined", ""}]
    ELSE d

\* Number.parseInt(text, 10)
parseInt(text) == IF text = "" THEN "NaN" ELSE text

resolveSetting(setting, env) ==
    LET vals == [k \in 1..Len(Reads(setting)) |-> env[Reads(setting)[k]]]
    IN  IF setting = "PUBLIC_PORT"
        THEN parseInt(nullishChain(vals, "default"))
        ELSE truthyChain(vals, "default")

BootInit ==
    /\ GatewayAtRest
    /\ ImportAtRest
    /\ RunCmdAtRest
    /\ ProbeAtRest
    /\ AuthAtRest
    /\ WrapperAtRest
    /\ FwdAtRest
    /\ ConfAtRest
    /\ boot = IdleBoot

\* The module is loaded in some environment; one setting is looked at.
Load(setting, env) ==
    /\ UNCHANGED nonBootVars
    /\ boot.pc = "idle"
    /\ boot' = [pc |-> "resolved", setting |-> setting, env |-> env,
                value |-> resolveSetting(setting, env)]

BootNext == \E setting \in Settings, env \in Envs : Load(setting, env)

BootSpec == BootInit /\ [][BootNext]_vars

-----------------------------------------------------------------------------
\* Properties of the settings.

\* The names of the setting in hand that are set (present and not blank).
SetNames == {i \in 1..Len(Prefixes) : boot.env[i] \notin {"undefined", ""}}

\* C21: a resolved setting that has some alias set has the value of the
\* first set one in the order OPENCLAW_*, MOLTBOT_*, CLAWDBOT_*.
C21_FirstSetAliasWins ==
    (boot.pc = "resolved" /\ SetNames # {})
        => boot.value = boot.env[CHOOSE i \in SetNames : \A j \in SetNames : i <= j]

-----------------------------------------------------------------------------
\* The reverse proxy: requests handed to proxy.web and what becomes of them.
\*
\* A request is "handed" once proxy.web has been called with it, "piping"
\* once the proxy is connected to the backend, "responded" once the client
\* has a complete response, "errored" once the proxy has emitted "error" for
\* it.  The response of an errored request is written by whoever listens to
\* "error"; the proxy itself leaves it open.

Txs == 1..MaxFwd

\* What the listener registered with proxy.on("error") leaves of a request:
\* it logs the error and does not touch the response.
onProxyError(tx) == [tx EXCEPT !.pc = "errored", !.logged = TRUE]

FwdInit ==
    /\ GatewayAtRest
    /\ ImportAtRest
    /\ RunCmdAtRest
    /\ ProbeAtRest
    /\ AuthAtRest
    /\ WrapperAtRest
    /\ BootAtRest
    /\ ConfAtRest
    /\ fwd = IdleFwd

\* The backend starts or stops listening on GATEWAY_TARGET.
BackendListens ==
    /\ UNCHANGED nonFwdVars
    /\ fwd.backend = "down"
    /\ fwd' = [fwd EXCEPT !.backend = "up"]

BackendGone ==
    /\ UNCHANGED nonFwdVars
    /\ fwd.backend = "up"
    /\ fwd' = [fwd EXCEPT !.backend = "down"]

\* proxy.web(req, res, { target: GATEWAY_TARGET })
Hand(i) ==
    /\ UNCHANGED nonFwdVars
    /\ fwd.tx[i].pc = "idle"
    /\ \A j \in Txs : j < i => fwd.tx[j].pc # "idle"
    /\ fwd' = [fwd EXCEPT !.tx[i].pc = "handed"]

\* The proxy connects to the backend, or the connection is refused.
Connect(i) ==
    /\ UNCHANGED nonFwdVars
    /\ fwd.tx[i].pc = "handed"
    /\ fwd' = [fwd EXCEPT !.tx[i] = IF fwd.backend = "up"
                                    THEN [@ EXCEPT !.pc = "piping"]
                                    ELSE onProxyError(@)]

\* The backend's response is piped to the client, or the connection breaks.
Pipe(i) ==
    /\ UNCHANGED nonFwdVars
    /\ fwd.tx[i].pc = "piping"
    /\ fwd' = [fwd EXCEPT !.tx[i] = IF fwd.backend = "up"
                                    THEN [@ EXCEPT !.pc = "responded"]
                                    ELSE onProxyError(@)]

FwdNext ==
    \/ BackendListens
    \/ BackendGone
    \/ \E i \in Txs : Hand(i)
    \/ \E i \in Txs : Connect(i)
    \/ \E i \in Txs : Pipe(i)

FwdSpec == FwdInit /\ [][FwdNext]_vars

\* Sockets connect, fail and deliver: no request stays handed or piping.
FairFwdSpec ==
    /\ FwdSpec
    /\ \A i \in Txs : WF_vars(Connect(i)) /\ WF_vars(Pipe(i))

-----------------------------------------------------------------------------
\* Properties of the reverse proxy.

\* C22: every request handed to the proxy eventually has a response, and a
\* request whose forwarding failed has its error logged.
C22_HandedGetsResponse ==
    /\ \A i \in Txs : (fwd.tx[i].pc = "handed") ~> (fwd.tx[i].pc = "responded")
    /\ [](\A i \in Txs : fwd.tx[i].pc = "errored" => fwd.tx[i].logged)

-----------------------------------------------------------------------------
\* Further properties of the supervisor.

\* The startup attempt of process p ends in this step, timed out or ready.
TimesOut(p) == attempt[p] = "pending" /\ attempt'[p] = "timeout"
BecomesReady(p) == attempt[p] = "pending" /\ attempt'[p] = "ready"
Pending == {p \in Procs : attempt[p] = "pending"}
Dead(p) == proc[p] \in {"failed", "exited"}

\* C23: when a startup attempt times out, the calls awaiting it (the call
\* that started it among them) fail, no process is signalled or removed,
\* gatewayProc stays what it was, and gatewayStarting is cleared.
C23_Step ==
    \A p \in Procs :
       TimesOut(p) =>
          /\ \E r \in Awaiting : req[r].att = p
          /\ \A r \in Awaiting : req'[r].ens = "threw"
          /\ proc' = proc
          /\ gatewayProc' = gatewayProc
          /\ gatewayStarting = p
          /\ gatewayStarting' = 0
C23_TimeoutLeavesProcess == [][C23_Step]_vars
\* A timed-out attempt whose process is still alive and still the handle.
C23_Witness ==
    \E p \in Procs, r \in Reqs :
       /\ attempt[p] = "timeout"
       /\ gatewayProc = p
       /\ proc[p] = "alive"
       /\ gatewayStarting = 0
       /\ req[r].ens = "threw"

\* C24: a backend that failed to spawn or has exited is not the handle, and
\* when the attempt that spawned it ends, no call awaiting it succeeds.
C24_Step ==
    \A p \in Procs :
       (Dead(p) /\ attempt[p] = "pending" /\ attempt'[p] # "pending")
          => \A r \in Awaiting : req'[r].ens = "threw"
C24_FailedStartFails ==
    /\ [](\A p \in Procs : Dead(p) => gatewayProc # p)
    /\ [][C24_Step]_vars

\* C25, as stated: a call of ensureGatewayRunning that finds a handle returns
\* success in the same step, spawns nothing, joins no attempt and changes
\* neither the handle nor the attempt slot, configured or not.
C25_HandleStep(r, result) ==
    /\ req'[r].ens = result
    /\ req'[r].pc # "awaiting"
    /\ NoSpawn
    /\ gatewayProc' = gatewayProc
    /\ gatewayStarting' = gatewayStarting
    /\ attempt' = attempt
RestartCalled(r) == req[r].pc = "cfgdone" /\ req'[r].pc # "cfgdone"

\* C26: restartGateway called without a handle signals no process, does not
\* sleep, never fails at once, and does what ensureGatewayRunning does in
\* that state: the not-configured failure, a spawn with a new attempt, or
\* joining the attempt in flight.
C26_Step ==
    \A r \in Reqs :
       (RestartCalled(r) /\ gatewayProc = 0) =>
          /\ \A p \in Procs : proc'[p] = "term" => proc[p] = "term"
          /\ req'[r].pc # "restartSleep"
          /\ req'[r].ens # "threw"
          /\ ~isConfigured
                => (req'[r].ens = "notConfigured" /\ NoSpawn /\ gatewayProc' = 0
                    /\ gatewayStarting' = gatewayStarting)
          /\ (isConfigured /\ gatewayStarting = 0)
                => (SpawnedNow /\ gatewayStarting' # 0 /\ req'[r].pc = "awaiting")
          /\ (isConfigured /\ gatewayStarting # 0)
                => (NoSpawn /\ gatewayStarting' = gatewayStarting /\ req'[r].pc = "awaiting"
                    /\ gatewayProc' = 0)
C26_RestartWithoutHandle == [][C26_Step]_vars
\* A restart that found no handle and awaits the attempt it started.
C26_Witness ==
    \E r \in Reqs :
       /\ req[r].restarted
       /\ req[r].old = 0
       /\ req[r].pc = "awaiting"
       /\ req[r].att = gatewayStarting
       /\ gatewayStarting # 0

\* C27: at most one startup attempt is pending, it is the one in
\* gatewayStarting, gatewayStarting is cleared in the step that ends it, and
\* no call of ensureGatewayRunning fails at once: after a failed attempt a
\* call that finds the system configured and no handle starts a new one.
C27_Step ==
    /\ \A p \in Procs : (TimesOut(p) \/ BecomesReady(p)) => gatewayStarting' = 0
    /\ \A r \in Reqs :
         EnsureCalled(r) =>
            /\ req'[r].ens # "threw"
            /\ (isConfigured /\ HandleAtCall(r) = 0 /\ gatewayStarting = 0)
                  => (SpawnedNow /\ gatewayStarting' \notin {0} \cup Pending)
C27_OneAttempt ==
    /\ [](/\ Cardinality(Pending) <= 1
          /\ gatewayStarting # 0 => Pending = {gatewayStarting}
          /\ gatewayStarting = 0 => Pending = {})
    /\ [][C27_Step]_vars
\* An attempt has timed out and a later one is pending.
C27_Witness ==
    \E p, q \in Procs :
       /\ attempt[p] = "timeout"
       /\ attempt[q] = "pending"
       /\ gatewayStarting = q

\* C28: gatewayProc holds only a process that has not exited, and when it is
\* null no backend the wrapper spawned is alive.
C28_HandleAgreesWithLiveness ==
    /\ gatewayProc # 0 => Alive(gatewayProc)
    /\ gatewayProc = 0 => AliveProcs = {}

-----------------------------------------------------------------------------
\* Further properties of the archive model and of runCmd.

\* C29: GET /setup/export leaves the state directory and the workspace
\* directory as they were, absent or present, and leaves the backend handle
\* and the startup attempt alone.
C29_Step ==
    Export =>
       /\ disk'.state = disk.state
       /\ disk'.workspace = disk.workspace
       /\ gw' = gw
       /\ gatewayProc' = gatewayProc
       /\ gatewayStarting' = gatewayStarting
C29_ExportChangesNothing == [][C29_Step]_vars

\* C30: a runCmd promise resolved with code 0 belongs to a command that
\* exited with status 0: not to one that failed to spawn, exited with
\* another status or was ended by a signal.
C30_CodeZeroOnlyOnSuccess ==
    (cmd.promise.state = "resolved" /\ cmd.promise.value.code = "0")
        => (cmd.child = "closed" /\ cmd.exit = "0")

-----------------------------------------------------------------------------
\* Properties of the wrapper while no config file exists.

\* C31: while isConfigured() is false, a request that reaches the last
\* middleware on a path outside /setup is redirected to /setup, no request
\* or upgrade is handed to the proxy, and no backend is spawned.
C31_Step ==
    ~isConfigured =>
       /\ \A r \in Reqs :
             (req[r].pc = "idle" /\ req'[r].kind = "http") => req'[r].pc = "redirect"
       /\ \A r \in Reqs :
             req'[r].pc \in {"forwarded", "proxied"} => req'[r].pc = req[r].pc
       /\ NoSpawn
C31_UnconfiguredOnlyRedirects == [][C31_Step]_vars

-----------------------------------------------------------------------------
\* C32: a request or a WebSocket upgrade whose path starts with /openclaw
\* is forwarded to the backend only if SETUP_PASSWORD is set and the request
\* carries Basic credentials with that password.
C32_ControlUiNeedsPassword ==
    (startsWith(http.path, "openclaw") /\ http.answer = "forwarded")
        => (SETUP_PASSWORD # <<>> /\ CarriesPassword)

-----------------------------------------------------------------------------
\* The config file: configPath(), isConfigured(), POST /setup/api/reset and
\* the first test of POST /setup/api/run.
\*
\* conf.files are the config files that exist, each named by its last path
\* segment; conf.explicit is the value of the first non-blank *_CONFIG_PATH
\* variable, "" when none is set.

ConfigNames == {"openclaw.json", "moltbot.json", "clawdbot.json"}
ExplicitPaths == {"", "custom.json", "openclaw.json", "moltbot.json"}

configPath(c) ==
    IF c.explicit # "" THEN c.explicit
    ELSE IF "openclaw.json" \in c.files THEN "openclaw.json"
    ELSE IF "moltbot.json" \in c.files THEN "moltbot.json"
    ELSE IF "clawdbot.json" \in c.files THEN "clawdbot.json"
    ELSE "openclaw.json"

\* isConfigured() on the files of c.
isConfiguredAt(c) == configPath(c) \in c.files

\* fs.rmSync(f, { force: true })
rmSync(files, f) == files \ {f}

ConfInit ==
    /\ GatewayAtRest
    /\ ImportAtRest
    /\ RunCmdAtRest
    /\ ProbeAtRest
    /\ AuthAtRest
    /\ WrapperAtRest
    /\ BootAtRest
    /\ FwdAtRest
    /\ \E e \in ExplicitPaths : conf = [IdleConf EXCEPT !.explicit = e]

\* A state directory is put in place (by an import, or by a volume that an
\* older release wrote): any combination of the three config files.
Install(fs) ==
    /\ UNCHANGED nonConfVars
    /\ conf' = [conf EXCEPT !.files = (conf.files \ ConfigNames) \cup fs,
                            !.last = "installed"]

\* POST /setup/api/reset.
ResetConfig ==
    /\ UNCHANGED nonConfVars
    /\ conf' = [conf EXCEPT !.files = rmSync(conf.files, configPath(conf)),
                            !.last = "resetOk"]

\* POST /setup/api/run: "Already configured." when isConfigured(); else the
\* onboarding command runs, which writes the config file or fails to.
RunSetup(wrote) ==
    /\ UNCHANGED nonConfVars
    /\ IF isConfiguredAt(conf)
       THEN conf' = [conf EXCEPT !.last = "already"]
       ELSE LET fs == IF wrote THEN conf.files \cup {configPath(conf)} ELSE conf.files
            IN  conf' = [conf EXCEPT !.files = fs,
                                     !.last = IF wrote THEN "onboarded" ELSE "onboardFailed"]

ConfNext ==
    \/ \E fs \in SUBSET ConfigNames : Install(fs)
    \/ ResetConfig
    \/ \E wrote \in BOOLEAN : RunSetup(wrote)

ConfSpec == ConfInit /\ [][ConfNext]_vars

\* C33: after a reset that answered OK, isConfigured() is false, whichever
\* of openclaw.json, moltbot.json and clawdbot.json existed, so that the
\* next setup run starts onboarding.
C33_ResetUnconfigures ==
    conf.last = "resetOk" => ~isConfiguredAt(conf)

-----------------------------------------------------------------------------
\* The supervisor until the wrapper is told to stop.

\* process.on("SIGTERM"): the process held by gatewayProc is signalled, then
\* process.exit(0).
SigtermHandler ==
    /\ UNCHANGED <<importVars, cmd, probe, authVars, boot, fwd, conf>>
    /\ WrapperRuns
    /\ proc' = kill(proc, gatewayProc)
    /\ wrapper' = [wrapper EXCEPT !.status = "exited"]
    /\ UNCHANGED <<stateDir, workspaceDir, gatewayProc, gatewayStarting, port, attempt, req>>

ShutdownNext ==
    \/ Next
    \/ SigtermHandler

ShutdownSpec == Init /\ [][ShutdownNext]_vars

\* C34: when the wrapper exits on SIGTERM, every backend it spawned that is
\* still alive has been sent SIGTERM.
C34_Step ==
    (WrapperRuns /\ wrapper'.status = "exited")
        => \A p \in Procs : Alive(p) => proc'[p] = "term"
C34_ShutdownSignalsBackends == [][C34_Step]_vars

-----------------------------------------------------------------------------
\* The supervisor with its timers: besides the probe loop and the
\* synchronous block of the import, the sleep(750) of restartGateway ends.
FairCallsSpec ==
    /\ FairSpec
    /\ \A r \in Reqs : WF_vars(RestartAfterSleep(r))

\* The handler of request r is inside a call of ensureGatewayRunning or of
\* restartGateway.
InCall(r) == req[r].pc \in {"awaiting", "restartSleep"}

\* C35: every call of ensureGatewayRunning and of restartGateway ends, with
\* a value or an error: a handler awaiting a startup attempt or the sleep of
\* a restart gets to its answer.
C35_CallsEnd ==
    \A r \in Reqs : InCall(r) ~> (req[r].pc \in Terminal)

\* A restart has ended with the error of a readiness timeout.
C35_Witness ==
    \E r \in Reqs : req[r].kind \in {"run", "import"} /\ req[r].ens = "threw"

-----------------------------------------------------------------------------
\* C36: the "exit" event of a backend clears gatewayProc only when
\* gatewayProc holds that backend; the exit of a process that was replaced
\* leaves the handle of the newer process in place.
C36_Step ==
    \A p \in Procs :
       (Alive(p) /\ proc'[p] = "exited")
           => gatewayProc' = IF gatewayProc = p THEN 0 ELSE gatewayProc
C36_ExitClearsOwnHandle == [][C36_Step]_vars

-----------------------------------------------------------------------------
\* C37: a call of ensureGatewayRunning returns success only when the
\* process held by gatewayProc has answered a readiness probe; a process
\* whose startup attempt timed out is not reported as running by a later
\* call.
C37_Step ==
    \A r \in Reqs :
       (req[r].ens # "ok" /\ req'[r].ens = "ok")
           => (gatewayProc' # 0 /\ attempt'[gatewayProc'] = "ready")
C37_SuccessOnlyAfterProbe == [][C37_Step]_vars

-----------------------------------------------------------------------------
\* C38: when POST /setup/import answers ok: true, "Gateway restarted", its
\* restartGateway call returned success (not "not configured") and
\* gatewayProc holds a backend that has answered a readiness probe.
C38_Step ==
    \A r \in Reqs :
       (req'[r].kind = "import" /\ req[r].pc # "200" /\ req'[r].pc = "200")
           => /\ req'[r].ens = "ok"
              /\ gatewayProc' # 0
              /\ attempt'[gatewayProc'] = "ready"
C38_ImportSuccessMeansRunning == [][C38_Step]_vars

====
